---- MODULE Spec2Model ----
(***************************************************************************)
(* A model of the File Tree (FT) of src/3FT: the node entity (nodeFT.c),   *)
(* the tree orchestrator with its three static state variables (ft.c) and  *)
(* the invariant checker (checkerFT.c).                                    *)
(*                                                                         *)
(* Nodes live in a heap, a function from node ids to node records whose    *)
(* domain is the set of allocated nodes.  Every public function of ft.c is *)
(* an operator from the FT state (and the call's inputs) to the state      *)
(* after the call and the value returned; the action of the same name      *)
(* applies that operator to the current state.  The assert() calls of the  *)
(* source are compiled out (NDEBUG): what they assert is checked here as   *)
(* properties instead.  An allocation that fails is an input of the call.  *)
(***************************************************************************)
EXTENDS Integers, Sequences, FiniteSets, TLC

(* ------------------------------ bounds --------------------------------- *)

\* The deepest path a caller passes in.
MaxDepth == 3

\* The number of nodes the heap can hold; malloc fails when it is full.
MaxNodes == 3

\* The width of size_t in bits (scaled down from 64: TLC's integers are 32 bits).
SizeBits == 16

(* ----------------------------- constants ------------------------------- *)

NULL == 0

Slash == 47

Newline == 10

\* The names of the path components callers use: "a" and "ab".
Names == {<<97>>, <<97, 98>>}

\* The contents callers pass to FT_insertFile, as <<pvContents, ulLength>>:
\* no buffer and length 0, the buffer "hi" of length 2, no buffer but length 2.
FileInputs == {<<<<>>, 0>>, <<<<104, 105>>, 2>>, <<<<>>, 2>>}

\* The contents of the FT_insertFile calls that meet an allocation failure.
FailingFileInput == <<<<104, 105>>, 2>>

SizeMod == 2 ^ SizeBits

NodeIds == 1 .. MaxNodes

(* --------------------- Path (external collaborator) --------------------- *)
(* A Path_T is the sequence of its components, each a non-empty string (a  *)
(* sequence of character codes).                                           *)

RECURSIVE strcmpFrom(_, _, _)
strcmpFrom(s, t, i) ==
    IF i > Len(s) /\ i > Len(t) THEN 0
    ELSE IF i > Len(s) THEN -1
    ELSE IF i > Len(t) THEN 1
    ELSE IF s[i] < t[i] THEN -1
    ELSE IF s[i] > t[i] THEN 1
    ELSE strcmpFrom(s, t, i + 1)

strcmp(s, t) == strcmpFrom(s, t, 1)

RECURSIVE SplitFrom(_, _, _, _)
SplitFrom(s, i, cur, acc) ==
    IF i > Len(s) THEN Append(acc, cur)
    ELSE IF s[i] = Slash THEN SplitFrom(s, i + 1, <<>>, Append(acc, cur))
    ELSE SplitFrom(s, i + 1, Append(cur, s[i]), acc)

\* The parse of the string pcPath: BAD_PATH unless it is a slash followed by
\* non-empty segments separated by single slashes.
Path_new(pcPath, fail) ==
    IF Len(pcPath) < 2 \/ pcPath[1] # Slash
    THEN [iStatus |-> "BAD_PATH", oPPath |-> <<>>]
    ELSE LET parts == SplitFrom(pcPath, 2, <<>>, <<>>) IN
         IF \E k \in 1 .. Len(parts) : parts[k] = <<>>
         THEN [iStatus |-> "BAD_PATH", oPPath |-> <<>>]
         ELSE IF fail.at = "Path_new"
         THEN [iStatus |-> "MEMORY_ERROR", oPPath |-> <<>>]
         ELSE [iStatus |-> "SUCCESS", oPPath |-> parts]

Path_getDepth(oPPath) == Len(oPPath)

Path_prefix(oPPath, ulDepth) == SubSeq(oPPath, 1, ulDepth)

RECURSIVE Path_getPathname(_)
Path_getPathname(oPPath) ==
    IF oPPath = <<>> THEN <<>>
    ELSE Path_getPathname(SubSeq(oPPath, 1, Len(oPPath) - 1))
             \o <<Slash>> \o oPPath[Len(oPPath)]

Path_comparePath(oPPath1, oPPath2) ==
    strcmp(Path_getPathname(oPPath1), Path_getPathname(oPPath2))

RECURSIVE SharedFrom(_, _, _)
SharedFrom(p, q, i) ==
    IF i > Len(p) \/ i > Len(q) \/ p[i] # q[i] THEN i - 1
    ELSE SharedFrom(p, q, i + 1)

Path_getSharedPrefixDepth(oPPath1, oPPath2) == SharedFrom(oPPath1, oPPath2, 1)

(* ------------------- DynArray (external collaborator) ------------------- *)
(* A DynArray_T is a sequence; the source's indices are 0-based.           *)

DynArray_get(oDynArray, ulIndex) == oDynArray[ulIndex + 1]

DynArray_addAt(oDynArray, ulIndex, pvElement) ==
    SubSeq(oDynArray, 1, ulIndex) \o <<pvElement>>
        \o SubSeq(oDynArray, ulIndex + 1, Len(oDynArray))

DynArray_removeAt(oDynArray, ulIndex) ==
    SubSeq(oDynArray, 1, ulIndex) \o SubSeq(oDynArray, ulIndex + 2, Len(oDynArray))

\* Binary search; cmps[k] is pfCompare(element k, the element sought).
RECURSIVE bsearchLoop(_, _, _)
bsearchLoop(cmps, lo, hi) ==
    IF lo > hi THEN [found |-> FALSE, index |-> lo]
    ELSE LET mid == lo + ((hi - lo) \div 2) IN
         IF cmps[mid + 1] = 0 THEN [found |-> TRUE, index |-> mid]
         ELSE IF cmps[mid + 1] < 0 THEN bsearchLoop(cmps, mid + 1, hi)
         ELSE bsearchLoop(cmps, lo, mid - 1)

DynArray_bsearch(cmps) == bsearchLoop(cmps, 0, Len(cmps) - 1)

(* ------------------------------ nodeFT.c -------------------------------- *)
(* struct node; a File's oDChildren, NULL in the source, is <<>> here      *)
(* (every read of it in the source is guarded by bIsFile), and so is a     *)
(* NULL pvContents.                                                        *)

Node(oPPath, oNParent, bIsFile, pvContents, ulLength) ==
    [oPPath |-> oPPath, oNParent |-> oNParent, oDChildren |-> <<>>,
     bIsFile |-> bIsFile, pvContents |-> pvContents, ulLength |-> ulLength]

Node_getPath(h, oNNode) == h[oNNode].oPPath

Node_getParent(h, oNNode) == h[oNNode].oNParent

Node_isFile(h, oNNode) == h[oNNode].bIsFile

Node_compareString(h, oNFirst, pcSecond) ==
    strcmp(Path_getPathname(h[oNFirst].oPPath), pcSecond)

Node_compare(h, oNFirst, oNSecond) ==
    strcmp(Path_getPathname(Node_getPath(h, oNFirst)),
           Path_getPathname(Node_getPath(h, oNSecond)))

Node_hasChild(h, oNParent, oPPath) ==
    IF h[oNParent].bIsFile THEN [found |-> FALSE, index |-> 0]
    ELSE DynArray_bsearch(
             [k \in 1 .. Len(h[oNParent].oDChildren) |->
                 Node_compareString(h, h[oNParent].oDChildren[k],
                                    Path_getPathname(oPPath))])

Node_getNumChildren(h, oNParent) ==
    IF h[oNParent].bIsFile THEN 0 ELSE Len(h[oNParent].oDChildren)

\* A faulty Node_getChild, which does not look at the kind of oNParent.
Node_getChild_anyKind(h, oNParent, ulChildID) ==
    IF ulChildID >= Len(h[oNParent].oDChildren)
    THEN [iStatus |-> "NO_SUCH_PATH", oNResult |-> NULL]
    ELSE [iStatus |-> "SUCCESS",
          oNResult |-> DynArray_get(h[oNParent].oDChildren, ulChildID)]

Node_getChild(h, oNParent, ulChildID) ==
    IF h[oNParent].bIsFile
    THEN [iStatus |-> "NOT_A_DIRECTORY", oNResult |-> NULL]
    ELSE IF ulChildID >= Node_getNumChildren(h, oNParent)
    THEN [iStatus |-> "NO_SUCH_PATH", oNResult |-> NULL]
    ELSE [iStatus |-> "SUCCESS",
          oNResult |-> DynArray_get(h[oNParent].oDChildren, ulChildID)]

\* A faulty Node_addChild, which ignores ulIndex and puts the child first.
Node_addChild_atFront(h, oNParent, oNChild, ulIndex) ==
    [h EXCEPT ![oNParent].oDChildren = DynArray_addAt(@, 0, oNChild)]

Node_addChild(h, oNParent, oNChild, ulIndex) ==
    [h EXCEPT ![oNParent].oDChildren = DynArray_addAt(@, ulIndex, oNChild)]

\* malloc(sizeof(struct node)): the lowest free id; NULL when the heap is full.
malloc_node(h) ==
    IF NodeIds \ DOMAIN h = {} THEN NULL
    ELSE CHOOSE n \in NodeIds \ DOMAIN h : \A m \in NodeIds \ DOMAIN h : n <= m

\* held: what the failed call allocated and did not release.
Node_fails(iStatus, h, held) ==
    [iStatus |-> iStatus, oNResult |-> NULL, heap |-> h, held |-> held]

\* Node_new with the depth of the path compared before the shared prefix.
Node_new_depthFirst(h, oPPath, oNParent, bIsFile, pvContents, ulLength, fail) ==
    LET psNew == malloc_node(h)
        pvCopy == IF bIsFile /\ ulLength > 0 /\ pvContents # <<>>
                  THEN SubSeq(pvContents, 1, ulLength) ELSE <<>>
        new == IF bIsFile THEN Node(oPPath, oNParent, TRUE, pvCopy, ulLength)
               ELSE Node(oPPath, oNParent, FALSE, <<>>, 0)
        \* the failure returns below the parent check free the children
        \* container, the path and the struct, and never pvContents
        held == IF bIsFile /\ ulLength > 0 /\ pvContents # <<>>
                THEN {"pvContents"} ELSE {}
    IN
    IF psNew = NULL \/ fail.at = "malloc_node" THEN Node_fails("MEMORY_ERROR", h, {})
    ELSE IF fail.at = "Path_dup" THEN Node_fails("MEMORY_ERROR", h, {})
    ELSE IF bIsFile /\ ulLength > 0 /\ pvContents # <<>> /\ fail.at = "malloc_contents"
    THEN Node_fails("MEMORY_ERROR", h, {})
    ELSE IF ~bIsFile /\ fail.at = "DynArray_new" THEN Node_fails("MEMORY_ERROR", h, {})
    ELSE IF oNParent # NULL
    THEN LET ulParentDepth == Path_getDepth(h[oNParent].oPPath)
             ulSharedDepth == Path_getSharedPrefixDepth(oPPath, h[oNParent].oPPath)
             hc == Node_hasChild(h, oNParent, oPPath)
         IN
         IF Path_getDepth(oPPath) # ulParentDepth + 1
         THEN Node_fails("NO_SUCH_PATH", h, held)
         ELSE IF ulSharedDepth < ulParentDepth THEN Node_fails("CONFLICTING_PATH", h, held)
         ELSE IF h[oNParent].bIsFile THEN Node_fails("NOT_A_DIRECTORY", h, held)
         ELSE IF hc.found THEN Node_fails("ALREADY_IN_TREE", h, held)
         ELSE IF fail.at = "DynArray_addAt" THEN Node_fails("MEMORY_ERROR", h, held)
         ELSE [iStatus |-> "SUCCESS", oNResult |-> psNew,
               heap |-> Node_addChild((psNew :> new) @@ h, oNParent, psNew, hc.index)]
    ELSE IF Path_getDepth(oPPath) # 1 THEN Node_fails("NO_SUCH_PATH", h, held)
    ELSE [iStatus |-> "SUCCESS", oNResult |-> psNew, heap |-> (psNew :> new) @@ h]

\* fail.at names the allocation of this call that fails, if any.
Node_new(h, oPPath, oNParent, bIsFile, pvContents, ulLength, fail) ==
    LET psNew == malloc_node(h)
        pvCopy == IF bIsFile /\ ulLength > 0 /\ pvContents # <<>>
                  THEN SubSeq(pvContents, 1, ulLength) ELSE <<>>
        new == IF bIsFile THEN Node(oPPath, oNParent, TRUE, pvCopy, ulLength)
               ELSE Node(oPPath, oNParent, FALSE, <<>>, 0)
        \* the failure returns below the parent check free the children
        \* container, the path and the struct, and never pvContents
        held == IF bIsFile /\ ulLength > 0 /\ pvContents # <<>>
                THEN {"pvContents"} ELSE {}
    IN
    IF psNew = NULL \/ fail.at = "malloc_node" THEN Node_fails("MEMORY_ERROR", h, {})
    ELSE IF fail.at = "Path_dup" THEN Node_fails("MEMORY_ERROR", h, {})
    ELSE IF bIsFile /\ ulLength > 0 /\ pvContents # <<>> /\ fail.at = "malloc_contents"
    THEN Node_fails("MEMORY_ERROR", h, {})
    ELSE IF ~bIsFile /\ fail.at = "DynArray_new" THEN Node_fails("MEMORY_ERROR", h, {})
    ELSE IF oNParent # NULL
    THEN LET ulParentDepth == Path_getDepth(h[oNParent].oPPath)
             ulSharedDepth == Path_getSharedPrefixDepth(oPPath, h[oNParent].oPPath)
             hc == Node_hasChild(h, oNParent, oPPath)
         IN
         IF ulSharedDepth < ulParentDepth THEN Node_fails("CONFLICTING_PATH", h, held)
         ELSE IF Path_getDepth(oPPath) # ulParentDepth + 1
         THEN Node_fails("NO_SUCH_PATH", h, held)
         ELSE IF h[oNParent].bIsFile THEN Node_fails("NOT_A_DIRECTORY", h, held)
         ELSE IF hc.found THEN Node_fails("ALREADY_IN_TREE", h, held)
         ELSE IF fail.at = "DynArray_addAt" THEN Node_fails("MEMORY_ERROR", h, held)
         ELSE [iStatus |-> "SUCCESS", oNResult |-> psNew,
               heap |-> Node_addChild((psNew :> new) @@ h, oNParent, psNew, hc.index)]
    ELSE IF Path_getDepth(oPPath) # 1 THEN Node_fails("NO_SUCH_PATH", h, held)
    ELSE [iStatus |-> "SUCCESS", oNResult |-> psNew, heap |-> (psNew :> new) @@ h]

\* The heap without the nodes in ids.
Release(h, ids) == [n \in DOMAIN h \ ids |-> h[n]]

\* Node_free: the heap after the call and the number of nodes freed.
RECURSIVE Node_free(_, _)
RECURSIVE Node_freeChildren(_, _, _)
Node_freeChildren(h, oNNode, ulCount) ==
    IF Len(h[oNNode].oDChildren) # 0
    THEN LET r == Node_free(h, DynArray_get(h[oNNode].oDChildren, 0)) IN
         Node_freeChildren(r.heap, oNNode, ulCount + r.ulCount)
    ELSE [heap |-> h, ulCount |-> ulCount]

\* A faulty Node_free, which does not count the node itself.
Node_free_uncounted(h, oNNode) ==
    LET oNParent == h[oNNode].oNParent
        bs == DynArray_bsearch(
                  [k \in 1 .. Len(h[oNParent].oDChildren) |->
                      Node_compare(h, h[oNParent].oDChildren[k], oNNode)])
        h1 == IF oNParent # NULL /\ ~h[oNParent].bIsFile /\ bs.found
              THEN [h EXCEPT ![oNParent].oDChildren = DynArray_removeAt(@, bs.index)]
              ELSE h
        r == IF ~h1[oNNode].bIsFile THEN Node_freeChildren(h1, oNNode, 0)
             ELSE [heap |-> h1, ulCount |-> 0]
    IN [heap |-> Release(r.heap, {oNNode}), ulCount |-> r.ulCount]

Node_free(h, oNNode) ==
    LET oNParent == h[oNNode].oNParent
        bs == DynArray_bsearch(
                  [k \in 1 .. Len(h[oNParent].oDChildren) |->
                      Node_compare(h, h[oNParent].oDChildren[k], oNNode)])
        h1 == IF oNParent # NULL /\ ~h[oNParent].bIsFile /\ bs.found
              THEN [h EXCEPT ![oNParent].oDChildren = DynArray_removeAt(@, bs.index)]
              ELSE h
        r == IF ~h1[oNNode].bIsFile THEN Node_freeChildren(h1, oNNode, 0)
             ELSE [heap |-> h1, ulCount |-> 0]
    IN [heap |-> Release(r.heap, {oNNode}), ulCount |-> r.ulCount + 1]

\* Node_replaceFileContents: the heap it leaves, the pointer it returns
\* (pvResult is "NULL" or "pvOldContents", whose bytes are pvOldContents) and
\* whether the buffer behind that pointer has been freed.  fail.at =
\* "malloc_contents" makes the allocation of the new buffer fail.
Node_replaceFileContents(h, oNNode, pvNewContents, ulNewLength, fail) ==
    LET pvOldContents == h[oNNode].pvContents
        returned(h2, bFreed) ==
            [heap |-> h2,
             pvResult |-> IF pvOldContents = <<>> THEN "NULL" ELSE "pvOldContents",
             pvOldContents |-> pvOldContents,
             bFreed |-> bFreed /\ pvOldContents # <<>>]
    IN
    IF ~h[oNNode].bIsFile
    THEN [heap |-> h, pvResult |-> "NULL", pvOldContents |-> <<>>, bFreed |-> FALSE]
    ELSE IF ulNewLength = 0
    THEN returned([h EXCEPT ![oNNode].pvContents = <<>>, ![oNNode].ulLength = 0], TRUE)
    ELSE IF fail.at = "malloc_contents"
    THEN [heap |-> h, pvResult |-> "NULL", pvOldContents |-> <<>>, bFreed |-> FALSE]
    ELSE returned([h EXCEPT ![oNNode].pvContents = SubSeq(pvNewContents, 1, ulNewLength),
                            ![oNNode].ulLength = ulNewLength], FALSE)

(* -------------------------------- ft.c ---------------------------------- *)
(* The state of the FT: the three static variables and the heap.           *)

FTState(b, r, c, h) == [bIsInitialized |-> b, oNRoot |-> r, ulCount |-> c, heap |-> h]

\* The value returned by a call that changes nothing.
Returns(ft, iStatus) == [ft |-> ft, iStatus |-> iStatus]

\* oNRoot points to a node that has been freed: reading it is undefined.
Dangling(ft) == ft.oNRoot # NULL /\ ft.oNRoot \notin DOMAIN ft.heap

NoFail == [at |-> "none", level |-> 0]

\* The loop of FT_traversePath, entered at level i with oNCurr reached.
RECURSIVE FT_traverseLoop(_, _, _, _, _)
FT_traverseLoop(h, oNCurr, oPPath, i, fail) ==
    IF i > Path_getDepth(oPPath) THEN [iStatus |-> "SUCCESS", oNFurthest |-> oNCurr]
    ELSE IF Node_isFile(h, oNCurr)
    THEN [iStatus |-> "NOT_A_DIRECTORY", oNFurthest |-> oNCurr]
    ELSE IF fail.at = "traverse" /\ fail.level = i
    THEN [iStatus |-> "MEMORY_ERROR", oNFurthest |-> NULL]
    ELSE LET hc == Node_hasChild(h, oNCurr, Path_prefix(oPPath, i))
             gc == Node_getChild(h, oNCurr, hc.index)
         IN
         IF hc.found
         THEN IF gc.iStatus # "SUCCESS"
              THEN [iStatus |-> gc.iStatus, oNFurthest |-> NULL]
              ELSE FT_traverseLoop(h, gc.oNResult, oPPath, i + 1, fail)
         ELSE [iStatus |-> "SUCCESS", oNFurthest |-> oNCurr]

\* A faulty FT_traversePath, which does not compare the root's path with the
\* depth-1 prefix of oPPath.
FT_traversePath_anyRoot(ft, oPPath, fail) ==
    IF ft.oNRoot = NULL THEN [iStatus |-> "SUCCESS", oNFurthest |-> NULL]
    ELSE IF fail.at = "traverse" /\ fail.level = 1
    THEN [iStatus |-> "MEMORY_ERROR", oNFurthest |-> NULL]
    ELSE FT_traverseLoop(ft.heap, ft.oNRoot, oPPath, 2, fail)

\* A faulty FT_traversePath, which stops at the root and never descends.
FT_traversePath_rootOnly(ft, oPPath, fail) ==
    IF ft.oNRoot = NULL THEN [iStatus |-> "SUCCESS", oNFurthest |-> NULL]
    ELSE IF fail.at = "traverse" /\ fail.level = 1
    THEN [iStatus |-> "MEMORY_ERROR", oNFurthest |-> NULL]
    ELSE IF Path_comparePath(Node_getPath(ft.heap, ft.oNRoot), Path_prefix(oPPath, 1)) # 0
    THEN [iStatus |-> "CONFLICTING_PATH", oNFurthest |-> NULL]
    ELSE [iStatus |-> "SUCCESS", oNFurthest |-> ft.oNRoot]

FT_traversePath(ft, oPPath, fail) ==
    IF ft.oNRoot = NULL THEN [iStatus |-> "SUCCESS", oNFurthest |-> NULL]
    ELSE IF fail.at = "traverse" /\ fail.level = 1
    THEN [iStatus |-> "MEMORY_ERROR", oNFurthest |-> NULL]
    ELSE IF Path_comparePath(Node_getPath(ft.heap, ft.oNRoot), Path_prefix(oPPath, 1)) # 0
    THEN [iStatus |-> "CONFLICTING_PATH", oNFurthest |-> NULL]
    ELSE FT_traverseLoop(ft.heap, ft.oNRoot, oPPath, 2, fail)

FT_findNode(ft, pcPath, fail) ==
    IF ~ft.bIsInitialized THEN [iStatus |-> "INITIALIZATION_ERROR", oNResult |-> NULL]
    ELSE LET pn == Path_new(pcPath, fail)
             tr == FT_traversePath(ft, pn.oPPath, fail)
         IN
         IF pn.iStatus # "SUCCESS" THEN [iStatus |-> pn.iStatus, oNResult |-> NULL]
         ELSE IF Dangling(ft) THEN [iStatus |-> "UB", oNResult |-> NULL]
         ELSE IF tr.iStatus # "SUCCESS" THEN [iStatus |-> tr.iStatus, oNResult |-> NULL]
         ELSE IF tr.oNFurthest = NULL THEN [iStatus |-> "NO_SUCH_PATH", oNResult |-> NULL]
         ELSE IF Path_comparePath(Node_getPath(ft.heap, tr.oNFurthest), pn.oPPath) # 0
         THEN [iStatus |-> "NO_SUCH_PATH", oNResult |-> NULL]
         ELSE [iStatus |-> "SUCCESS", oNResult |-> tr.oNFurthest]

\* The allocation that fails in Node_new at level ulIndex of a chain, if any.
FailAt(fail, ulIndex) == IF fail.level = ulIndex THEN fail ELSE NoFail

\* The loop of FT_insertDir, entered at level ulIndex below oNCurr.
RECURSIVE FT_insertDirLoop(_, _, _, _, _, _)
FT_insertDirLoop(h, oNCurr, oPPath, ulIndex, ulNewNodes, fail) ==
    IF ulIndex > Path_getDepth(oPPath)
    THEN [iStatus |-> "SUCCESS", heap |-> h, oNCurr |-> oNCurr, ulNewNodes |-> ulNewNodes]
    ELSE IF oNCurr # NULL /\ Node_isFile(h, oNCurr)
    THEN [iStatus |-> "NOT_A_DIRECTORY", heap |-> h, oNCurr |-> oNCurr,
          ulNewNodes |-> ulNewNodes]
    ELSE IF fail.at = "Path_prefix" /\ fail.level = ulIndex
    THEN [iStatus |-> "MEMORY_ERROR", heap |-> h, oNCurr |-> oNCurr,
          ulNewNodes |-> ulNewNodes]
    ELSE LET nn == Node_new(h, Path_prefix(oPPath, ulIndex), oNCurr, FALSE, <<>>, 0,
                            FailAt(fail, ulIndex))
         IN
         IF nn.iStatus # "SUCCESS"
         THEN [iStatus |-> nn.iStatus, heap |-> nn.heap, oNCurr |-> oNCurr,
               ulNewNodes |-> ulNewNodes]
         ELSE FT_insertDirLoop(nn.heap, nn.oNResult, oPPath, ulIndex + 1,
                               ulNewNodes + 1, fail)

FT_insertDir(ft, pcPath, fail) ==
    IF ~ft.bIsInitialized THEN Returns(ft, "INITIALIZATION_ERROR")
    ELSE LET pn == Path_new(pcPath, fail)
             oPPath == pn.oPPath
             tr == FT_traversePath(ft, oPPath, fail)
             oNCurr == tr.oNFurthest
             ulDepth == Path_getDepth(oPPath)
             ulIndex == IF oNCurr = NULL THEN 1
                        ELSE Path_getDepth(Node_getPath(ft.heap, oNCurr)) + 1
             lp == FT_insertDirLoop(ft.heap, oNCurr, oPPath, ulIndex, 0, fail)
         IN
         IF pn.iStatus # "SUCCESS" THEN Returns(ft, pn.iStatus)
         ELSE IF Dangling(ft) THEN Returns(ft, "UB")
         ELSE IF tr.iStatus # "SUCCESS" THEN Returns(ft, tr.iStatus)
         ELSE IF oNCurr = NULL /\ ft.oNRoot # NULL THEN Returns(ft, "CONFLICTING_PATH")
         ELSE IF oNCurr # NULL /\ ulIndex = ulDepth + 1
                 /\ Path_comparePath(oPPath, Node_getPath(ft.heap, oNCurr)) = 0
         THEN Returns(ft, "ALREADY_IN_TREE")
         ELSE IF lp.iStatus # "SUCCESS"
         THEN [ft |-> [ft EXCEPT !.heap = lp.heap], iStatus |-> lp.iStatus]
         ELSE [ft |-> FTState(TRUE,
                              IF ft.oNRoot = NULL THEN lp.oNCurr ELSE ft.oNRoot,
                              (ft.ulCount + lp.ulNewNodes) % SizeMod,
                              lp.heap),
               iStatus |-> "SUCCESS"]

\* The loop of FT_insertFile, entered at level ulIndex below oNCurr.
RECURSIVE FT_insertFileLoop(_, _, _, _, _, _, _, _)
FT_insertFileLoop(h, oNCurr, oPPath, ulIndex, ulNewNodes, pvContents, ulLength, fail) ==
    LET bIsFinal == (ulIndex = Path_getDepth(oPPath)) IN
    IF ulIndex > Path_getDepth(oPPath)
    THEN [iStatus |-> "SUCCESS", heap |-> h, oNCurr |-> oNCurr, ulNewNodes |-> ulNewNodes]
    ELSE IF oNCurr # NULL /\ Node_isFile(h, oNCurr)
    THEN [iStatus |-> "NOT_A_DIRECTORY", heap |-> h, oNCurr |-> oNCurr,
          ulNewNodes |-> ulNewNodes]
    ELSE IF fail.at = "Path_prefix" /\ fail.level = ulIndex
    THEN [iStatus |-> "MEMORY_ERROR", heap |-> h, oNCurr |-> oNCurr,
          ulNewNodes |-> ulNewNodes]
    ELSE LET nn == IF ~bIsFinal
                   THEN Node_new(h, Path_prefix(oPPath, ulIndex), oNCurr, FALSE, <<>>, 0,
                                 FailAt(fail, ulIndex))
                   ELSE Node_new(h, Path_prefix(oPPath, ulIndex), oNCurr, TRUE,
                                 pvContents, ulLength, FailAt(fail, ulIndex))
         IN
         IF nn.iStatus # "SUCCESS"
         THEN [iStatus |-> nn.iStatus, heap |-> nn.heap, oNCurr |-> oNCurr,
               ulNewNodes |-> ulNewNodes]
         ELSE FT_insertFileLoop(nn.heap, nn.oNResult, oPPath, ulIndex + 1,
                                ulNewNodes + 1, pvContents, ulLength, fail)

\* A faulty FT_insertFile, without the check that the tree has a root.
FT_insertFile_noRootCheck(ft, pcPath, pvContents, ulLength, fail) ==
    IF ~ft.bIsInitialized THEN Returns(ft, "INITIALIZATION_ERROR")
    ELSE LET pn == Path_new(pcPath, fail)
             oPPath == pn.oPPath
             tr == FT_traversePath(ft, oPPath, fail)
             oNCurr == tr.oNFurthest
             ulDepth == Path_getDepth(oPPath)
             ulIndex == IF oNCurr = NULL THEN 1
                        ELSE Path_getDepth(Node_getPath(ft.heap, oNCurr)) + 1
             lp == FT_insertFileLoop(ft.heap, oNCurr, oPPath, ulIndex, 0,
                                     pvContents, ulLength, fail)
         IN
         IF pn.iStatus # "SUCCESS" THEN Returns(ft, pn.iStatus)
         ELSE IF Dangling(ft) THEN Returns(ft, "UB")
         ELSE IF tr.iStatus # "SUCCESS" THEN Returns(ft, tr.iStatus)
         ELSE IF oNCurr # NULL /\ ulIndex = ulDepth + 1
                 /\ Path_comparePath(oPPath, Node_getPath(ft.heap, oNCurr)) = 0
         THEN Returns(ft, "ALREADY_IN_TREE")
         ELSE IF ulIndex = 1 /\ ulDepth = 1 THEN Returns(ft, "CONFLICTING_PATH")
         ELSE IF lp.iStatus # "SUCCESS"
         THEN [ft |-> [ft EXCEPT !.heap = lp.heap], iStatus |-> lp.iStatus]
         ELSE [ft |-> FTState(TRUE, ft.oNRoot, (ft.ulCount + lp.ulNewNodes) % SizeMod,
                              lp.heap),
               iStatus |-> "SUCCESS"]

FT_insertFile(ft, pcPath, pvContents, ulLength, fail) ==
    IF ~ft.bIsInitialized THEN Returns(ft, "INITIALIZATION_ERROR")
    ELSE LET pn == Path_new(pcPath, fail)
             oPPath == pn.oPPath
             tr == FT_traversePath(ft, oPPath, fail)
             oNCurr == tr.oNFurthest
             ulDepth == Path_getDepth(oPPath)
             ulIndex == IF oNCurr = NULL THEN 1
                        ELSE Path_getDepth(Node_getPath(ft.heap, oNCurr)) + 1
             lp == FT_insertFileLoop(ft.heap, oNCurr, oPPath, ulIndex, 0,
                                     pvContents, ulLength, fail)
         IN
         IF pn.iStatus # "SUCCESS" THEN Returns(ft, pn.iStatus)
         ELSE IF ft.oNRoot = NULL THEN Returns(ft, "CONFLICTING_PATH")
         ELSE IF Dangling(ft) THEN Returns(ft, "UB")
         ELSE IF tr.iStatus # "SUCCESS" THEN Returns(ft, tr.iStatus)
         ELSE IF oNCurr # NULL /\ ulIndex = ulDepth + 1
                 /\ Path_comparePath(oPPath, Node_getPath(ft.heap, oNCurr)) = 0
         THEN Returns(ft, "ALREADY_IN_TREE")
         ELSE IF ulIndex = 1 /\ ulDepth = 1 THEN Returns(ft, "CONFLICTING_PATH")
         ELSE IF lp.iStatus # "SUCCESS"
         THEN [ft |-> [ft EXCEPT !.heap = lp.heap], iStatus |-> lp.iStatus]
         ELSE [ft |-> FTState(TRUE, ft.oNRoot, (ft.ulCount + lp.ulNewNodes) % SizeMod,
                              lp.heap),
               iStatus |-> "SUCCESS"]

\* FT_containsDir and FT_containsFile: bResult is the boolean returned, and
\* iStatus the status of FT_findNode ("UB" when it read a freed root).
FT_containsDir(ft, pcPath, fail) ==
    LET fn == FT_findNode(ft, pcPath, fail) IN
    IF fn.iStatus # "SUCCESS" THEN [iStatus |-> fn.iStatus, bResult |-> FALSE]
    ELSE [iStatus |-> "SUCCESS", bResult |-> ~Node_isFile(ft.heap, fn.oNResult)]

FT_containsFile(ft, pcPath, fail) ==
    LET fn == FT_findNode(ft, pcPath, fail) IN
    IF fn.iStatus # "SUCCESS" THEN [iStatus |-> fn.iStatus, bResult |-> FALSE]
    ELSE [iStatus |-> "SUCCESS", bResult |-> Node_isFile(ft.heap, fn.oNResult)]

\* A faulty FT_rmDir, which answers NO_SUCH_PATH whenever FT_findNode fails on
\* an initialized tree.
FT_rmDir_noSuchPath(ft, pcPath, fail) ==
    LET fn == FT_findNode(ft, pcPath, fail)
        nf == Node_free(ft.heap, fn.oNResult)
        ulCount == (ft.ulCount - nf.ulCount) % SizeMod
    IN
    IF fn.iStatus = "INITIALIZATION_ERROR" THEN Returns(ft, fn.iStatus)
    ELSE IF fn.iStatus # "SUCCESS" THEN Returns(ft, "NO_SUCH_PATH")
    ELSE [ft |-> FTState(ft.bIsInitialized,
                         IF ulCount = 0 THEN NULL ELSE ft.oNRoot,
                         ulCount, nf.heap),
          iStatus |-> "SUCCESS"]

FT_rmDir(ft, pcPath, fail) ==
    LET fn == FT_findNode(ft, pcPath, fail)
        nf == Node_free(ft.heap, fn.oNResult)
        ulCount == (ft.ulCount - nf.ulCount) % SizeMod
    IN
    IF fn.iStatus # "SUCCESS" THEN Returns(ft, fn.iStatus)
    ELSE [ft |-> FTState(ft.bIsInitialized,
                         IF ulCount = 0 THEN NULL ELSE ft.oNRoot,
                         ulCount, nf.heap),
          iStatus |-> "SUCCESS"]

\* A faulty FT_init, which initializes again a tree that is initialized.
FT_init_again(ft) == [ft |-> FTState(TRUE, NULL, 0, ft.heap), iStatus |-> "SUCCESS"]

FT_init(ft) ==
    IF ft.bIsInitialized THEN Returns(ft, "INITIALIZATION_ERROR")
    ELSE [ft |-> FTState(TRUE, NULL, 0, ft.heap), iStatus |-> "SUCCESS"]

FT_destroy(ft) ==
    LET nf == Node_free(ft.heap, ft.oNRoot) IN
    IF ~ft.bIsInitialized THEN Returns(ft, "INITIALIZATION_ERROR")
    ELSE IF Dangling(ft) THEN Returns(ft, "UB")
    ELSE IF ft.oNRoot # NULL
    THEN [ft |-> FTState(FALSE, NULL, (ft.ulCount - nf.ulCount) % SizeMod, nf.heap),
          iStatus |-> "SUCCESS"]
    ELSE [ft |-> FTState(FALSE, NULL, ft.ulCount, ft.heap), iStatus |-> "SUCCESS"]

\* The nodes of the subtree of n, in the order DT_preOrderTraversal stores them.
RECURSIVE DT_preOrderTraversal(_, _)
RECURSIVE DT_preOrderChildren(_, _, _)
DT_preOrderChildren(h, n, c) ==
    IF c < Node_getNumChildren(h, n)
    THEN DT_preOrderTraversal(h, Node_getChild(h, n, c).oNResult)
             \o DT_preOrderChildren(h, n, c + 1)
    ELSE <<>>

DT_preOrderTraversal(h, n) ==
    IF n # NULL THEN <<n>> \o DT_preOrderChildren(h, n, 0) ELSE <<>>

\* strcat of every node's pathname and a newline, in the order of nodes.
RECURSIVE DT_strcatAccumulate(_, _)
DT_strcatAccumulate(h, nodes) ==
    IF nodes = <<>> THEN <<>>
    ELSE Path_getPathname(Node_getPath(h, Head(nodes))) \o <<Newline>>
             \o DT_strcatAccumulate(h, Tail(nodes))

\* DT_toString: the string returned; iStatus is "NULL" when it returns NULL
\* and "UB" when the call writes outside the array of ulCount elements.
DT_toString(ft, fail) ==
    LET nodes == DT_preOrderTraversal(ft.heap, ft.oNRoot) IN
    IF ~ft.bIsInitialized THEN [iStatus |-> "NULL", result |-> <<>>]
    ELSE IF fail.at = "DynArray_new" \/ Dangling(ft) \/ Len(nodes) > ft.ulCount
    THEN [iStatus |-> "UB", result |-> <<>>]
    ELSE IF fail.at = "malloc_result" THEN [iStatus |-> "NULL", result |-> <<>>]
    ELSE [iStatus |-> "SUCCESS", result |-> DT_strcatAccumulate(ft.heap, nodes)]

(* ----------------------------- checkerFT.c ------------------------------ *)

\* A faulty checkerFT_Child_isValid, without the comparison with the
\* previous child.
checkerFT_Child_isValid_unordered(h, oNParent, oNChild, index, totChildren) ==
    LET oPNPath == Node_getPath(h, oNChild)
        oPPPath == Node_getPath(h, oNParent)
    IN
    /\ oNChild # NULL
    /\ Node_getParent(h, oNChild) = oNParent
    /\ Path_getSharedPrefixDepth(oPNPath, oPPPath) = Path_getDepth(oPNPath) - 1
    /\ \A j \in index + 1 .. totChildren - 1 :
          LET gc == Node_getChild(h, oNParent, j) IN
          ~(/\ gc.iStatus = "SUCCESS"
            /\ gc.oNResult # NULL
            /\ Path_comparePath(oPNPath, Node_getPath(h, gc.oNResult)) = 0)

checkerFT_Child_isValid(h, oNParent, oNChild, index, totChildren) ==
    LET oPNPath == Node_getPath(h, oNChild)
        oPPPath == Node_getPath(h, oNParent)
    IN
    /\ oNChild # NULL
    /\ Node_getParent(h, oNChild) = oNParent
    /\ Path_getSharedPrefixDepth(oPNPath, oPPPath) = Path_getDepth(oPNPath) - 1
    /\ \A j \in index + 1 .. totChildren - 1 :
          LET gc == Node_getChild(h, oNParent, j) IN
          ~(/\ gc.iStatus = "SUCCESS"
            /\ gc.oNResult # NULL
            /\ Path_comparePath(oPNPath, Node_getPath(h, gc.oNResult)) = 0)
    /\ index > 0 =>
          LET gp == Node_getChild(h, oNParent, index - 1) IN
          ~(/\ gp.iStatus = "SUCCESS"
            /\ gp.oNResult # NULL
            /\ Path_comparePath(Node_getPath(h, gp.oNResult), oPNPath) > 0)

CheckerFT_Node_isValid(h, oNNode) ==
    /\ oNNode # NULL
    /\ LET oNParent == Node_getParent(h, oNNode)
           oPNPath == Node_getPath(h, oNNode)
       IN
       IF oNParent = NULL THEN ~Node_isFile(h, oNNode)
       ELSE Path_getSharedPrefixDepth(oPNPath, Node_getPath(h, oNParent))
                = Path_getDepth(oPNPath) - 1
    /\ Node_isFile(h, oNNode) => Node_getNumChildren(h, oNNode) = 0
    /\ \A ulIndex \in 0 .. Node_getNumChildren(h, oNNode) - 1 :
          LET gc == Node_getChild(h, oNNode, ulIndex) IN
          /\ gc.iStatus = "SUCCESS"
          /\ checkerFT_Child_isValid(h, oNNode, gc.oNResult, ulIndex,
                                     Node_getNumChildren(h, oNNode))

RECURSIVE CheckerFT_treeCheck(_, _)
CheckerFT_treeCheck(h, oNNode) ==
    oNNode # NULL =>
        /\ CheckerFT_Node_isValid(h, oNNode)
        /\ \A ulIndex \in 0 .. Node_getNumChildren(h, oNNode) - 1 :
              LET gc == Node_getChild(h, oNNode, ulIndex) IN
              /\ gc.iStatus = "SUCCESS"
              /\ CheckerFT_treeCheck(h, gc.oNResult)

\* The number CheckerFT_CountNodes adds to *pCount for the subtree of oNNode.
RECURSIVE CheckerFT_CountNodes(_, _)
RECURSIVE CheckerFT_CountChildren(_, _, _)
CheckerFT_CountChildren(h, oNNode, i) ==
    IF i < Node_getNumChildren(h, oNNode)
    THEN LET gc == Node_getChild(h, oNNode, i) IN
         (IF gc.iStatus = "SUCCESS" /\ gc.oNResult # NULL
          THEN CheckerFT_CountNodes(h, gc.oNResult) ELSE 0)
             + CheckerFT_CountChildren(h, oNNode, i + 1)
    ELSE 0

CheckerFT_CountNodes(h, oNNode) ==
    IF oNNode = NULL THEN 0 ELSE 1 + CheckerFT_CountChildren(h, oNNode, 0)

\* FALSE also when oNRoot has been freed: the checker would read freed memory.
CheckerFT_isValid(ft) ==
    IF ~ft.bIsInitialized THEN ft.ulCount = 0 /\ ft.oNRoot = NULL
    ELSE IF ft.oNRoot = NULL THEN ft.ulCount = 0
    ELSE /\ ~Dangling(ft)
         /\ Node_getParent(ft.heap, ft.oNRoot) = NULL
         /\ ~Node_isFile(ft.heap, ft.oNRoot)
         /\ CheckerFT_CountNodes(ft.heap, ft.oNRoot) = ft.ulCount
         /\ CheckerFT_treeCheck(ft.heap, ft.oNRoot)

\* CheckerFT_CountNodes(oNNode) calls itself for a node that is already on its
\* call stack: the control flow of the call does not depend on *pCount, so the
\* same call is made again without end.
RECURSIVE CountNodes_recursForever(_, _, _)
CountNodes_recursForever(h, oNNode, stack) ==
    \/ oNNode \in stack
    \/ \E i \in 0 .. Node_getNumChildren(h, oNNode) - 1 :
          LET gc == Node_getChild(h, oNNode, i) IN
          /\ gc.iStatus = "SUCCESS"
          /\ gc.oNResult # NULL
          /\ CountNodes_recursForever(h, gc.oNResult, stack \cup {oNNode})

\* What a call of CheckerFT_isValid does: it returns TRUE or FALSE, or it
\* never returns.
CheckerFT_isValid_outcome(ft) ==
    IF /\ ft.bIsInitialized
       /\ ft.oNRoot # NULL
       /\ ~Dangling(ft)
       /\ Node_getParent(ft.heap, ft.oNRoot) = NULL
       /\ ~Node_isFile(ft.heap, ft.oNRoot)
       /\ CountNodes_recursForever(ft.heap, ft.oNRoot, {})
    THEN "no return"
    ELSE IF CheckerFT_isValid(ft) THEN "TRUE" ELSE "FALSE"

\* A faulty CheckerFT_isValid that, for a root that is not NULL, sets the
\* FT's count to 0 where the code sets its local count.
CheckerFT_isValid_run_inPlace(ft) ==
    [ft |-> IF ft.oNRoot # NULL THEN [ft EXCEPT !.ulCount = 0] ELSE ft,
     outcome |-> CheckerFT_isValid_outcome(ft)]

\* A call of CheckerFT_isValid and the FT it leaves.  The flag, the root and
\* the count are passed by value; the nodes are read through Node_getPath,
\* Node_getParent, Node_isFile, Node_getNumChildren and Node_getChild, none of
\* which writes; the one object written is the local actualCount.
CheckerFT_isValid_run(ft) ==
    [ft |-> ft, outcome |-> CheckerFT_isValid_outcome(ft)]

\* A call of CheckerFT_Node_isValid and the nodes it leaves: it writes its
\* locals only.
CheckerFT_Node_isValid_run(h, oNNode) ==
    [heap |-> h, bResult |-> CheckerFT_Node_isValid(h, oNNode)]

(* --------------------------- the state machine -------------------------- *)

VARIABLES bIsInitialized, oNRoot, ulCount, heap, oom, inserted, removed

vars == <<bIsInitialized, oNRoot, ulCount, heap, oom, inserted, removed>>

\* The FT state now.
FT == FTState(bIsInitialized, oNRoot, ulCount, heap)

\* The paths of depth 1 .. MaxDepth over Names, and the strings callers pass:
\* their pathnames and two malformed strings, "" and "/a//a".
Paths == UNION {[1 .. d -> Names] : d \in 1 .. MaxDepth}

BadStrings == {<<>>, <<Slash, 97, Slash, Slash, 97>>}

PathStrings == {Path_getPathname(p) : p \in Paths} \cup BadStrings

\* The allocation failures a call can meet: in Path_new, in the first
\* Path_prefix of FT_traversePath, and at a level of the chain in Path_prefix or
\* in the first allocation of Node_new (which also fails when the heap is full).
FindFails == {NoFail, [at |-> "Path_new", level |-> 0], [at |-> "traverse", level |-> 1]}

InsertFails ==
    FindFails \cup
    {[at |-> a, level |-> l] : a \in {"Path_prefix", "malloc_node"}, l \in 1 .. MaxDepth}

ToStringFails == {NoFail, [at |-> "DynArray_new", level |-> 0],
                  [at |-> "malloc_result", level |-> 0]}

\* The prefixes of oPPath with their kinds, as a successful insert leaves them.
Chain(oPPath, bIsFile) ==
    {[oPPath |-> Path_prefix(oPPath, d), bIsFile |-> (bIsFile /\ d = Len(oPPath))] :
        d \in 1 .. Len(oPPath)}

Known(ins, chain) == {e \in chain : \A x \in ins : x.oPPath # e.oPPath}

\* The state after a call.  A count that is stale (see FT_insertDir's early
\* returns) drifts by one more at every such call; it is followed while it is
\* within MaxNodes of 0 modulo SizeMod.
Commit(ft) ==
    /\ (ft.ulCount <= MaxNodes \/ ft.ulCount >= SizeMod - MaxNodes)
    /\ bIsInitialized' = ft.bIsInitialized
    /\ oNRoot' = ft.oNRoot
    /\ ulCount' = ft.ulCount
    /\ heap' = ft.heap

Init ==
    /\ bIsInitialized = FALSE
    /\ oNRoot = NULL
    /\ ulCount = 0
    /\ heap = <<>>
    /\ oom = FALSE
    /\ inserted = {}
    /\ removed = FALSE

\* inserted is kept while every call since FT_init either succeeded as an
\* insert or changed nothing; removed says that this is no longer so.
Track(iStatus, chain) ==
    /\ removed' = (removed \/ iStatus = "MEMORY_ERROR")
    /\ inserted' = IF removed' THEN {}
                   ELSE IF iStatus = "SUCCESS" THEN inserted \cup Known(inserted, chain)
                   ELSE inserted

Init_call ==
    LET r == FT_init(FT) IN
    /\ Commit(r.ft)
    /\ inserted' = IF r.iStatus = "SUCCESS" THEN {} ELSE inserted
    /\ removed' = IF r.iStatus = "SUCCESS" THEN FALSE ELSE removed
    /\ UNCHANGED oom

Destroy_call ==
    LET r == FT_destroy(FT) IN
    /\ Commit(r.ft)
    /\ inserted' = IF r.iStatus = "SUCCESS" THEN {} ELSE inserted
    /\ removed' = IF r.iStatus = "SUCCESS" THEN FALSE ELSE removed
    /\ UNCHANGED oom

InsertDir_call ==
    \E pcPath \in PathStrings, fail \in InsertFails :
        LET r == FT_insertDir(FT, pcPath, fail) IN
        /\ Commit(r.ft)
        /\ oom' = (oom \/ r.iStatus = "MEMORY_ERROR")
        /\ Track(r.iStatus, Chain(Path_new(pcPath, NoFail).oPPath, FALSE))

InsertFile_call ==
    \E pcPath \in PathStrings, in \in FileInputs, fail \in InsertFails :
        LET r == FT_insertFile(FT, pcPath, in[1], in[2], fail) IN
        /\ fail = NoFail \/ in = FailingFileInput
        /\ Commit(r.ft)
        /\ oom' = (oom \/ r.iStatus = "MEMORY_ERROR")
        /\ Track(r.iStatus, Chain(Path_new(pcPath, NoFail).oPPath, TRUE))

RmDir_call ==
    \E pcPath \in PathStrings, fail \in FindFails :
        LET r == FT_rmDir(FT, pcPath, fail) IN
        /\ Commit(r.ft)
        /\ oom' = (oom \/ r.iStatus = "MEMORY_ERROR")
        /\ removed' = (removed \/ r.iStatus \in {"SUCCESS", "MEMORY_ERROR"})
        /\ inserted' = IF removed' THEN {} ELSE inserted

\* The queries change nothing: their results are the operators' values.
ContainsDir_call ==
    \E pcPath \in PathStrings, fail \in FindFails :
        /\ FT_containsDir(FT, pcPath, fail).bResult \in BOOLEAN
        /\ UNCHANGED vars

ContainsFile_call ==
    \E pcPath \in PathStrings, fail \in FindFails :
        /\ FT_containsFile(FT, pcPath, fail).bResult \in BOOLEAN
        /\ UNCHANGED vars

ToString_call ==
    \E fail \in ToStringFails :
        /\ DT_toString(FT, fail).iStatus \in {"SUCCESS", "NULL", "UB"}
        /\ UNCHANGED vars

\* The checkers are called on the FT and on a node, as the assertions of ft.c
\* and nodeFT.c call them; a call that does not return has no next state.
Check_call ==
    \E oNNode \in DOMAIN heap \cup {NULL} :
        LET r == CheckerFT_isValid_run(FT)
            n == CheckerFT_Node_isValid_run(r.ft.heap, oNNode)
        IN
        /\ ~Dangling(FT)
        /\ r.outcome # "no return"
        /\ n.bResult \in BOOLEAN
        /\ bIsInitialized' = r.ft.bIsInitialized
        /\ oNRoot' = r.ft.oNRoot
        /\ ulCount' = r.ft.ulCount
        /\ heap' = n.heap
        /\ UNCHANGED <<oom, inserted, removed>>

Next ==
    \/ Init_call
    \/ Destroy_call
    \/ InsertDir_call
    \/ InsertFile_call
    \/ RmDir_call
    \/ ContainsDir_call
    \/ ContainsFile_call
    \/ ToString_call
    \/ Check_call

Spec == Init /\ [][Next]_vars

(* ------------------------- vocabulary of the claims --------------------- *)

\* The well-formed strings callers pass, and the path each one denotes.
GoodStrings == {Path_getPathname(p) : p \in Paths}

PathOf(pcPath) == Path_new(pcPath, NoFail).oPPath

\* Every <<pvContents, ulLength>> a caller can pass to FT_insertFile.
AllFileInputs == FileInputs \cup {<<<<104, 105>>, 0>>}

\* The nodes reachable from n through child links (none from NULL).
RECURSIVE Reach(_, _)
Reach(h, n) ==
    IF n = NULL \/ n \notin DOMAIN h THEN {}
    ELSE {n} \cup UNION {Reach(h, h[n].oDChildren[k]) : k \in 1 .. Len(h[n].oDChildren)}

\* oNRoot is none or a node that has not been freed.
RootIsLive == ~Dangling(FT)

\* The step is a call that meets no allocation failure and returns SUCCESS.
Did_init == FT_init(FT).iStatus = "SUCCESS" /\ FT' = FT_init(FT).ft

Did_destroy == FT_destroy(FT).iStatus = "SUCCESS" /\ FT' = FT_destroy(FT).ft

Did_insertDir(pcPath) ==
    LET r == FT_insertDir(FT, pcPath, NoFail) IN r.iStatus = "SUCCESS" /\ FT' = r.ft

Did_insertFile(pcPath, pvContents, ulLength) ==
    LET r == FT_insertFile(FT, pcPath, pvContents, ulLength, NoFail) IN
    r.iStatus = "SUCCESS" /\ FT' = r.ft

Did_rmDir(pcPath) ==
    LET r == FT_rmDir(FT, pcPath, NoFail) IN r.iStatus = "SUCCESS" /\ FT' = r.ft

(* -------------------------------- claims -------------------------------- *)

\* C1: from every state reached without an allocation failure, every FT_init,
\* FT_insertDir, FT_insertFile, FT_rmDir and FT_destroy call that returns
\* SUCCESS leaves a state of which CheckerFT_isValid is true.
C1_ValidAfterEverySuccess ==
    [][(/\ ~oom
        /\ \/ Did_init
           \/ Did_destroy
           \/ \E pcPath \in PathStrings :
                 \/ Did_insertDir(pcPath)
                 \/ Did_rmDir(pcPath)
                 \/ \E in \in AllFileInputs : Did_insertFile(pcPath, in[1], in[2]))
       => CheckerFT_isValid(FT')]_vars

\* C2: a successful FT_insertDir(p) on an initialized tree with no root makes
\* the node of the depth-1 prefix of p the root; that node has no parent and
\* every node the call created is reachable from it.
C2_NewRootIsDepthOnePrefix ==
    [][\A pcPath \in GoodStrings :
          (bIsInitialized /\ oNRoot = NULL /\ Did_insertDir(pcPath)) =>
              /\ oNRoot' # NULL
              /\ Node_getPath(heap', oNRoot') = Path_prefix(PathOf(pcPath), 1)
              /\ Node_getParent(heap', oNRoot') = NULL
              /\ (DOMAIN heap' \ DOMAIN heap) \subseteq Reach(heap', oNRoot')]_vars

\* C3: in every initialized state reached without an allocation failure,
\* ulCount is the number of nodes reachable from oNRoot through child links,
\* and oNRoot is none iff ulCount is 0.
C3_CountIsExact ==
    (bIsInitialized /\ ~oom) =>
        /\ ulCount = Cardinality(Reach(heap, oNRoot))
        /\ (oNRoot = NULL) <=> (ulCount = 0)

\* The children of directory oNNode, in index order.
ChildrenOf(oNNode) == heap[oNNode].oDChildren

Pathname(oNNode) == Path_getPathname(Node_getPath(heap, oNNode))

Directories == {n \in DOMAIN heap : ~Node_isFile(heap, n)}

ClaimedBefore(x, y) ==
    \/ ~x.bIsFile /\ y.bIsFile
    \/ /\ x.bIsFile = y.bIsFile
       /\ strcmp(Path_getPathname(x.oPPath), Path_getPathname(y.oPPath)) < 0

RECURSIVE ClaimedOrder(_)
ClaimedOrder(S) ==
    IF S = {} THEN <<>>
    ELSE LET m == CHOOSE x \in S : \A y \in S \ {x} : ClaimedBefore(x, y) IN
         <<m>> \o ClaimedOrder(S \ {m})

\* The entries of ins one level below oPPath (the depth-1 entries for <<>>).
Below(ins, oPPath) ==
    {e \in ins : /\ Len(e.oPPath) = Len(oPPath) + 1
                 /\ Path_prefix(e.oPPath, Len(oPPath)) = oPPath}

\* The listing C5 describes of the entries es (a sequence of siblings) of ins.
RECURSIVE ClaimedListing(_, _)
ClaimedListing(ins, es) ==
    IF es = <<>> THEN <<>>
    ELSE Path_getPathname(Head(es).oPPath) \o <<Newline>>
             \o ClaimedListing(ins, ClaimedOrder(Below(ins, Head(es).oPPath)))
             \o ClaimedListing(ins, Tail(es))

\* C5: after FT_init and a sequence of calls of which each is a successful
\* insert or changes nothing, DT_toString returns the pathnames of the inserted
\* paths and of the intermediate directories created, each once and followed
\* by a newline, in pre-order with siblings directories first then files, each
\* group in lexicographic order.
C5_ToStringListsInsertedPaths ==
    (bIsInitialized /\ ~removed) =>
        DT_toString(FT, NoFail)
            = [iStatus |-> "SUCCESS",
               result |-> ClaimedListing(inserted, ClaimedOrder(Below(inserted, <<>>)))]

\* C6: when FT_insertDir(p) or FT_insertFile(p, ...) succeeds, an insert of
\* the same path p in the state it leaves returns ALREADY_IN_TREE and changes
\* neither count, root nor the set of nodes.
C6_SecondInsertIsRejected ==
    [][\A pcPath \in PathStrings :
          ((\/ Did_insertDir(pcPath)
            \/ \E in \in AllFileInputs : Did_insertFile(pcPath, in[1], in[2]))
           => /\ FT_insertDir(FT', pcPath, NoFail) = Returns(FT', "ALREADY_IN_TREE")
              /\ \A in \in AllFileInputs :
                    FT_insertFile(FT', pcPath, in[1], in[2], NoFail)
                        = Returns(FT', "ALREADY_IN_TREE"))]_vars

C8_InitAndDestroyResetTheState ==
    [][/\ Did_init => (bIsInitialized' /\ oNRoot' = NULL /\ ulCount' = 0)
       /\ Did_destroy =>
             /\ ~bIsInitialized'
             /\ oNRoot' = NULL
             /\ ulCount' = 0
             /\ DOMAIN heap' = {}]_vars

\* The well-formed strings of depth 1.
DepthOneStrings == {pcPath \in GoodStrings : Path_getDepth(PathOf(pcPath)) = 1}

\* C9 as stated: in every initialized state FT_insertFile with a path of
\* depth 1 returns CONFLICTING_PATH.
C9_DepthOneFileIsConflicting ==
    bIsInitialized =>
        \A pcPath \in DepthOneStrings, in \in AllFileInputs :
            FT_insertFile(FT, pcPath, in[1], in[2], NoFail).iStatus = "CONFLICTING_PATH"

\* C9 amended: in every initialized state whose root is none or has not been
\* freed, FT_insertFile with a path of depth 1 changes nothing and returns
\* ALREADY_IN_TREE when the root's path is that path, CONFLICTING_PATH when
\* there is no root or the root's path is another one.
C9_DepthOneFileIsNeverCreated ==
    (bIsInitialized /\ RootIsLive) =>
        \A pcPath \in DepthOneStrings, in \in AllFileInputs :
            FT_insertFile(FT, pcPath, in[1], in[2], NoFail)
                = Returns(FT,
                          IF /\ oNRoot # NULL
                             /\ Path_comparePath(Node_getPath(heap, oNRoot),
                                                 PathOf(pcPath)) = 0
                          THEN "ALREADY_IN_TREE"
                          ELSE "CONFLICTING_PATH")

\* The root's path is the depth-1 target, and the call returns ALREADY_IN_TREE.
C9_RootPathEqualsTarget ==
    /\ bIsInitialized
    /\ oNRoot # NULL
    /\ RootIsLive
    /\ \E pcPath \in DepthOneStrings :
          /\ Node_getPath(heap, oNRoot) = PathOf(pcPath)
          /\ FT_insertFile(FT, pcPath, <<104, 105>>, 2, NoFail).iStatus
                 = "ALREADY_IN_TREE"

\* C10: on an initialized tree with no root, FT_insertFile returns
\* CONFLICTING_PATH for every well-formed path of every depth and every
\* contents, creates no node and changes neither flag, root nor count.
C10_NoRootRejectsEveryFile ==
    (bIsInitialized /\ oNRoot = NULL) =>
        \A pcPath \in GoodStrings, in \in AllFileInputs :
            FT_insertFile(FT, pcPath, in[1], in[2], NoFail)
                = Returns(FT, "CONFLICTING_PATH")

\* The tree has lost its root to FT_rmDir, and a file of depth 2 is refused.
C10_FileRefusedAfterRemoval ==
    /\ bIsInitialized
    /\ oNRoot = NULL
    /\ removed
    /\ ~oom
    /\ FT_insertFile(FT, <<Slash, 97, Slash, 97>>, <<104, 105>>, 2, NoFail)
           = Returns(FT, "CONFLICTING_PATH")

\* The nodes of the tree: those reachable from the root.
Tree == Reach(heap, oNRoot)

\* Some node of the tree has the path oPPath.
HasNode(oPPath) == \E n \in Tree : Node_getPath(heap, n) = oPPath

\* Some File node of the tree has a proper prefix of oPPath as its path.
BelowFile(oPPath) ==
    \E n \in Tree :
        /\ Node_isFile(heap, n)
        /\ Len(Node_getPath(heap, n)) < Len(oPPath)
        /\ Node_getPath(heap, n) = Path_prefix(oPPath, Len(Node_getPath(heap, n)))

\* The root's path is not the depth-1 prefix of oPPath.
OutsideRoot(oPPath) ==
    oNRoot # NULL /\ Node_getPath(heap, oNRoot) # Path_prefix(oPPath, 1)

IsUnder(oPPath, q) == Len(q) >= Len(oPPath) /\ Path_prefix(q, Len(oPPath)) = oPPath

\* The nodes of the tree at or under oPPath.
Subtree(oPPath) == {n \in Tree : IsUnder(oPPath, Node_getPath(heap, n))}

\* C12: a successful FT_rmDir(p) frees exactly the nodes of the tree at or
\* under p, decreases count by their number, sets the root to none iff the
\* root was one of them, and leaves every other node as it was but for the
\* removed children, which leave the children array without reordering it.
C12_RmDirRemovesExactlyTheSubtree ==
    [][\A pcPath \in GoodStrings :
          Did_rmDir(pcPath) =>
              LET R == Subtree(PathOf(pcPath)) IN
              /\ DOMAIN heap' = DOMAIN heap \ R
              /\ ulCount' = (ulCount - Cardinality(R)) % SizeMod
              /\ (oNRoot' = NULL) <=> (oNRoot \in R)
              /\ (oNRoot \notin R) => (oNRoot' = oNRoot)
              /\ \A n \in (DOMAIN heap \ R) \cap DOMAIN heap' :
                    heap'[n] = [heap[n] EXCEPT
                                   !.oDChildren = SelectSeq(@, LAMBDA c : c \notin R)]]_vars

\* The node FT_rmDir(pcPath) frees with its subtree, when FT_findNode finds it.
Found(pcPath) == FT_findNode(FT, pcPath, NoFail)

\* C13 as stated: the value a successful FT_rmDir(p) returns is the number of
\* nodes it removed.  FT_rmDir returns the int SUCCESS; v stands for that int,
\* which no number of nodes above MaxNodes could equal.
C13_RmDirReturnsTheNumberRemoved ==
    \E v \in 0 .. MaxNodes :
        \A pcPath \in GoodStrings :
            FT_rmDir(FT, pcPath, NoFail).iStatus = "SUCCESS" =>
                v = Cardinality(Reach(heap, Found(pcPath).oNResult))

\* C13 amended: a successful FT_rmDir(p) returns the status SUCCESS; the
\* number of nodes removed, the size of the subtree of p's node, is the value
\* Node_free returns to FT_rmDir, which subtracts it from count.
C13_RmDirSubtractsTheNumberRemoved ==
    \A pcPath \in GoodStrings :
        Found(pcPath).iStatus = "SUCCESS" =>
            LET r == FT_rmDir(FT, pcPath, NoFail)
                nf == Node_free(heap, Found(pcPath).oNResult)
            IN
            /\ r.iStatus = "SUCCESS"
            /\ nf.ulCount = Cardinality(Reach(heap, Found(pcPath).oNResult))
            /\ r.ft.ulCount = (ulCount - nf.ulCount) % SizeMod
            /\ DOMAIN r.ft.heap = DOMAIN heap \ Reach(heap, Found(pcPath).oNResult)

\* The tree is /a with a Directory and a File below it, count is 3, and
\* FT_rmDir("/a") returns SUCCESS and leaves count 0 and no root.
C13_RemovesThreeNodes ==
    /\ bIsInitialized
    /\ ulCount = 3
    /\ Cardinality(Tree) = 3
    /\ \E n \in Tree : Node_isFile(heap, n)
    /\ FT_rmDir(FT, <<Slash, 97>>, NoFail)
           = [ft |-> FTState(TRUE, NULL, 0, Release(heap, Tree)), iStatus |-> "SUCCESS"]

\* The nodes of the tree whose path is the one the string pcPath denotes
\* (none for a malformed string).
NodesAt(pcPath) == {n \in Tree : Node_getPath(heap, n) = PathOf(pcPath)}

\* C14: in every state and for every string p, FT_containsDir(p) is TRUE iff
\* the tree is initialized and a Directory with path p is reachable from the
\* root, FT_containsFile(p) is TRUE iff the tree is initialized and a File with
\* path p is reachable from the root, and the two are never both TRUE.  (That
\* they change nothing is how the calls are modelled.)
C14_ContainsIsExact ==
    \A pcPath \in PathStrings :
        LET d == FT_containsDir(FT, pcPath, NoFail)
            f == FT_containsFile(FT, pcPath, NoFail)
        IN
        /\ d.bResult <=> (bIsInitialized /\ \E n \in NodesAt(pcPath) : ~Node_isFile(heap, n))
        /\ f.bResult <=> (bIsInitialized /\ \E n \in NodesAt(pcPath) : Node_isFile(heap, n))
        /\ ~(d.bResult /\ f.bResult)

\* The step is an FT_insertDir or FT_insertFile call that returns MEMORY_ERROR
\* after it has created a node.
Failed_insertDir(pcPath, fail) ==
    LET r == FT_insertDir(FT, pcPath, fail) IN
    r.iStatus = "MEMORY_ERROR" /\ DOMAIN r.ft.heap # DOMAIN heap /\ FT' = r.ft

Failed_insertFile(pcPath, pvContents, ulLength, fail) ==
    LET r == FT_insertFile(FT, pcPath, pvContents, ulLength, fail) IN
    r.iStatus = "MEMORY_ERROR" /\ DOMAIN r.ft.heap # DOMAIN heap /\ FT' = r.ft

\* C15: when FT_insertDir or FT_insertFile, called on a valid tree in which no
\* allocation has failed, returns MEMORY_ERROR after it has created the nodes
\* of earlier levels, those nodes stay, the state it leaves passes
\* CheckerFT_isValid and count is the number of nodes reachable from the root.
C15_FailedInsertLeavesValidTree ==
    [][(/\ ~oom
        /\ CheckerFT_isValid(FT)
        /\ \E pcPath \in GoodStrings, fail \in InsertFails :
              \/ Failed_insertDir(pcPath, fail)
              \/ \E in \in AllFileInputs : Failed_insertFile(pcPath, in[1], in[2], fail))
       => /\ DOMAIN heap \subseteq DOMAIN heap'
          /\ CheckerFT_isValid(FT')
          /\ ulCount' = Cardinality(Reach(heap', oNRoot'))]_vars

\* Every node that is allocated and not freed is reachable from the root.
NoOrphan(h, root) == DOMAIN h = Reach(h, root)

\* C16: when FT_insertDir, called on a tree without unreachable nodes, returns
\* MEMORY_ERROR after it has created a node, every node that is allocated and
\* not freed is reachable from the root, also when the tree had no root.
C16_FailedInsertDirLeavesNoOrphan ==
    [][(/\ NoOrphan(heap, oNRoot)
        /\ \E pcPath \in GoodStrings, fail \in InsertFails :
              Failed_insertDir(pcPath, fail))
       => NoOrphan(heap', oNRoot')]_vars

\* The inputs of a direct Node_new call: a path of depth 0 .. MaxDepth, any
\* live node or NULL as parent, and the allocation of the call that fails.
NodePaths == Paths \cup {<<>>}

NodeParents == DOMAIN heap \cup {NULL}

NodeFails ==
    {NoFail} \cup
    {[at |-> a, level |-> 0] :
        a \in {"malloc_node", "Path_dup", "malloc_contents", "DynArray_new",
               "DynArray_addAt"}}

\* C17: whenever Node_new returns a status other than SUCCESS, for a File with
\* contents as well as for a Directory, everything the call allocated is
\* released, the result is NULL and the parent's children are unchanged.
C17_FailedNodeNewReleasesEverything ==
    \A oPPath \in NodePaths, oNParent \in NodeParents, bIsFile \in BOOLEAN,
       in \in AllFileInputs, fail \in NodeFails :
        LET r == Node_new(heap, oPPath, oNParent, bIsFile, in[1], in[2], fail) IN
        r.iStatus # "SUCCESS" =>
            /\ r.held = {}
            /\ r.oNResult = NULL
            /\ r.heap = heap

\* A direct Node_new call on the current heap in which no allocation fails.
NodeCall(oPPath, oNParent, bIsFile, in) ==
    Node_new(heap, oPPath, oNParent, bIsFile, in[1], in[2], NoFail)

ParentDepth(oNParent) == Path_getDepth(Node_getPath(heap, oNParent))

\* The parent's path is not a prefix of oPPath.
NotAncestor(oPPath, oNParent) ==
    Path_getSharedPrefixDepth(oPPath, Node_getPath(heap, oNParent)) < ParentDepth(oNParent)

\* C18 as stated: Node_new returns NO_SUCH_PATH whenever the path has depth 0,
\* or the parent is not NULL and its depth is not the path's depth minus 1, or
\* the parent is NULL and the path's depth is not 1, whatever the two paths
\* share.
C18_WrongDepthIsNoSuchPath ==
    malloc_node(heap) # NULL =>
        \A oPPath \in NodePaths, oNParent \in NodeParents, bIsFile \in BOOLEAN,
           in \in AllFileInputs :
            (\/ Path_getDepth(oPPath) = 0
             \/ oNParent # NULL /\ ParentDepth(oNParent) # Path_getDepth(oPPath) - 1
             \/ oNParent = NULL /\ Path_getDepth(oPPath) # 1)
            => NodeCall(oPPath, oNParent, bIsFile, in).iStatus = "NO_SUCH_PATH"

\* C18, amended: when no allocation fails, Node_new returns CONFLICTING_PATH
\* whenever the parent is not NULL and its path is not a prefix of the path,
\* whatever the depths; it returns NO_SUCH_PATH exactly when the parent is
\* NULL and the path's depth is not 1, or the parent's path is a prefix of the
\* path and the path is not one level deeper than the parent.
C18_WrongDepthBelowAnAncestorIsNoSuchPath ==
    malloc_node(heap) # NULL =>
        \A oPPath \in NodePaths, oNParent \in NodeParents, bIsFile \in BOOLEAN,
           in \in AllFileInputs :
            LET r == NodeCall(oPPath, oNParent, bIsFile, in) IN
            /\ (oNParent # NULL /\ NotAncestor(oPPath, oNParent))
                   => r.iStatus = "CONFLICTING_PATH"
            /\ r.iStatus = "NO_SUCH_PATH" <=>
                   \/ oNParent = NULL /\ Path_getDepth(oPPath) # 1
                   \/ /\ oNParent # NULL
                      /\ ~NotAncestor(oPPath, oNParent)
                      /\ Path_getDepth(oPPath) # ParentDepth(oNParent) + 1

\* A live node refuses one path of the wrong depth with NO_SUCH_PATH and
\* another one, which it is not a prefix of, with CONFLICTING_PATH.
C18_BothRefusalsForWrongDepth ==
    /\ malloc_node(heap) # NULL
    /\ \E oNParent \in DOMAIN heap, p \in NodePaths, q \in NodePaths :
          /\ Path_getDepth(p) # ParentDepth(oNParent) + 1
          /\ Path_getDepth(q) # ParentDepth(oNParent) + 1
          /\ NodeCall(p, oNParent, FALSE, <<<<>>, 0>>).iStatus = "NO_SUCH_PATH"
          /\ NodeCall(q, oNParent, FALSE, <<<<>>, 0>>).iStatus = "CONFLICTING_PATH"

\* C19: whenever a proper prefix of the path is the path of a File of the
\* tree, FT_insertDir and FT_insertFile return NOT_A_DIRECTORY, create no node
\* and leave the root, the count and every node as they were.
C19_InsertBelowFileIsNotADirectory ==
    \A pcPath \in GoodStrings :
        BelowFile(PathOf(pcPath)) =>
            /\ FT_insertDir(FT, pcPath, NoFail) = Returns(FT, "NOT_A_DIRECTORY")
            /\ \A in \in AllFileInputs :
                  FT_insertFile(FT, pcPath, in[1], in[2], NoFail)
                      = Returns(FT, "NOT_A_DIRECTORY")

\* The tree holds a File below its root, and an insert below that File is
\* refused.
C19_RefusedBelowFile ==
    \E pcPath \in GoodStrings :
        /\ BelowFile(PathOf(pcPath))
        /\ Len(PathOf(pcPath)) = 3
        /\ FT_insertDir(FT, pcPath, NoFail).iStatus = "NOT_A_DIRECTORY"
        /\ FT_insertFile(FT, pcPath, <<104, 105>>, 2, NoFail).iStatus = "NOT_A_DIRECTORY"

\* C20: when the tree has a root, FT_insertDir and FT_insertFile return
\* CONFLICTING_PATH for every path whose depth-1 prefix is not the root's
\* path, and leave the state as it was.
C20_InsertOutsideRootIsConflicting ==
    RootIsLive =>
        \A pcPath \in GoodStrings :
            OutsideRoot(PathOf(pcPath)) =>
                /\ FT_insertDir(FT, pcPath, NoFail) = Returns(FT, "CONFLICTING_PATH")
                /\ \A in \in AllFileInputs :
                      FT_insertFile(FT, pcPath, in[1], in[2], NoFail)
                          = Returns(FT, "CONFLICTING_PATH")

\* The root has children, and inserts of a deep path outside it are refused.
C20_RefusedOutsideRoot ==
    /\ bIsInitialized
    /\ RootIsLive
    /\ oNRoot # NULL
    /\ Node_getNumChildren(heap, oNRoot) > 0
    /\ \E pcPath \in GoodStrings :
          /\ OutsideRoot(PathOf(pcPath))
          /\ Len(PathOf(pcPath)) > 1
          /\ FT_insertDir(FT, pcPath, NoFail).iStatus = "CONFLICTING_PATH"
          /\ FT_insertFile(FT, pcPath, <<>>, 0, NoFail).iStatus = "CONFLICTING_PATH"

\* C21: no two live nodes have the same path, whatever their kinds;
\* FT_insertFile at the path of a Directory of the tree and FT_insertDir at
\* the path of a File of the tree return ALREADY_IN_TREE and change nothing.
C21_PathsAreUnique ==
    /\ \A m \in DOMAIN heap, n \in DOMAIN heap :
          Node_getPath(heap, m) = Node_getPath(heap, n) => m = n
    /\ \A pcPath \in GoodStrings :
          \A n \in NodesAt(pcPath) :
              IF Node_isFile(heap, n)
              THEN FT_insertDir(FT, pcPath, NoFail) = Returns(FT, "ALREADY_IN_TREE")
              ELSE \A in \in AllFileInputs :
                      FT_insertFile(FT, pcPath, in[1], in[2], NoFail)
                          = Returns(FT, "ALREADY_IN_TREE")

\* How many entries of oNParent's children collection are oNChild.
Occurrences(h, oNParent, oNChild) ==
    Cardinality({k \in 1 .. Len(h[oNParent].oDChildren) :
                    h[oNParent].oDChildren[k] = oNChild})

\* n has a live parent, one level up on n's path, that lists n once.
HasItsParent(h, n) ==
    LET oNParent == Node_getParent(h, n) IN
    /\ oNParent \in DOMAIN h
    /\ Path_getDepth(Node_getPath(h, oNParent)) + 1 = Path_getDepth(Node_getPath(h, n))
    /\ Node_getPath(h, oNParent)
           = Path_prefix(Node_getPath(h, n), Path_getDepth(Node_getPath(h, n)) - 1)
    /\ Occurrences(h, oNParent, n) = 1

\* C22: in every state, every live node other than the root has a parent whose
\* path is the node's path without its last component, and that parent's
\* children collection contains the node exactly once.
C22_EveryNodeHasItsParent ==
    \A n \in DOMAIN heap \ {oNRoot} : HasItsParent(heap, n)

Files == {n \in DOMAIN heap : Node_isFile(heap, n)}

\* C23: in every state every File node has no children and is the parent of
\* no node; on a File, Node_getNumChildren returns 0, Node_hasChild returns
\* FALSE for every path and Node_getChild returns NOT_A_DIRECTORY and NULL for
\* every index.
C23_FilesHaveNoChildren ==
    \A f \in Files :
        /\ heap[f].oDChildren = <<>>
        /\ \A n \in DOMAIN heap : Node_getParent(heap, n) # f
        /\ Node_getNumChildren(heap, f) = 0
        /\ \A oPPath \in NodePaths : ~Node_hasChild(heap, f, oPPath).found
        /\ \A ulChildID \in 0 .. MaxNodes :
              Node_getChild(heap, f, ulChildID)
                  = [iStatus |-> "NOT_A_DIRECTORY", oNResult |-> NULL]

\* A File with contents lies in the tree next to a Directory, and
\* Node_getChild refuses to read a child of it.
C23_FileBesideDirectory ==
    \E f \in Files \cap Tree, d \in Tree \ Files :
        /\ Node_getParent(heap, f) = Node_getParent(heap, d)
        /\ heap[f].ulLength > 0
        /\ Node_getChild(heap, f, 0).iStatus = "NOT_A_DIRECTORY"

\* s without its entries equal to x, in order.
Without(s, x) == SelectSeq(s, LAMBDA e : e # x)

\* C24: Node_free(n), for every live node n, ends, frees n and each of its
\* descendants once and no other node, removes the one entry for n from the
\* children of n's parent and nothing else from any remaining node, and
\* returns 1 plus the number of descendants of n.
C24_NodeFreeFreesTheSubtreeOnce ==
    \A n \in DOMAIN heap :
        LET r == Node_free(heap, n)
            oNParent == Node_getParent(heap, n)
        IN
        /\ DOMAIN r.heap = DOMAIN heap \ Reach(heap, n)
        /\ r.ulCount = Cardinality(Reach(heap, n))
        /\ \A m \in DOMAIN r.heap :
              IF m = oNParent
              THEN /\ Occurrences(heap, m, n) = 1
                   /\ r.heap[m] = [heap[m] EXCEPT !.oDChildren = Without(@, n)]
              ELSE r.heap[m] = heap[m]

\* A node of the tree has a parent and a descendant, and Node_free of it
\* returns 2 or more.
C24_FreesAnInnerSubtree ==
    \E n \in Tree :
        /\ Node_getParent(heap, n) \in Tree
        /\ Cardinality(Reach(heap, n)) >= 2
        /\ Node_free(heap, n).ulCount >= 2

\* The <<pvNewContents, ulNewLength>> of a Node_replaceFileContents call (the
\* buffer holds at least ulNewLength bytes) and the allocation that may fail.
ReplaceInputs == {in \in AllFileInputs \cup {<<<<104, 105>>, 1>>} : in[2] <= Len(in[1])}

ReplaceFails == {NoFail, [at |-> "malloc_contents", level |-> 0]}

\* C25: Node_replaceFileContents on a File, for every new length, 0 included,
\* sets the contents to a copy of the new bytes and the length to the new
\* length and returns the previous contents buffer, still allocated; on a
\* Directory it returns NULL and changes nothing; when the allocation fails it
\* returns NULL and leaves contents and length as they were.
C25_ReplaceReturnsTheOldBuffer ==
    \A n \in DOMAIN heap, in \in ReplaceInputs, fail \in ReplaceFails :
        LET r == Node_replaceFileContents(heap, n, in[1], in[2], fail) IN
        IF ~Node_isFile(heap, n) \/ (fail # NoFail /\ in[2] > 0)
        THEN r.pvResult = "NULL" /\ r.heap = heap
        ELSE /\ r.heap = [heap EXCEPT ![n].pvContents = SubSeq(in[1], 1, in[2]),
                                      ![n].ulLength = in[2]]
             /\ r.pvOldContents = heap[n].pvContents
             /\ ~r.bFreed

(* ------------------ the checker on arbitrary structures ----------------- *)
(* CheckerFT_isValid is meant to be given structures a faulty FT has built: *)
(* here nodes of both kinds are created with any path and any live node or *)
(* NULL as parent, and any live node is linked into any Directory's         *)
(* children at any index.                                                   *)

MaxLinks == 2

StructInit ==
    /\ bIsInitialized = TRUE
    /\ oNRoot = NULL
    /\ ulCount = 0
    /\ heap = <<>>
    /\ oom = FALSE
    /\ inserted = {}
    /\ removed = FALSE

\* A new Directory or empty File whose path is one level below the path of
\* oNAbove (of depth 1 when oNAbove is NULL) and whose parent pointer is any
\* live node or NULL; the first node becomes the root.
Build_node ==
    \E oNAbove \in NodeParents, oNParent \in NodeParents, name \in Names,
       bIsFile \in BOOLEAN :
        LET psNew == malloc_node(heap)
            oPPath == IF oNAbove = NULL THEN <<name>>
                      ELSE Append(Node_getPath(heap, oNAbove), name)
        IN
        /\ psNew # NULL
        /\ Path_getDepth(oPPath) <= MaxDepth
        /\ heap' = (psNew :> Node(oPPath, oNParent, bIsFile, <<>>, 0)) @@ heap
        /\ oNRoot' = IF oNRoot = NULL THEN psNew ELSE oNRoot
        /\ ulCount' = ulCount + 1
        /\ UNCHANGED <<bIsInitialized, oom, inserted, removed>>

\* Any live node becomes an entry of the children of any Directory.
Link_child ==
    \E oNParent \in DOMAIN heap, oNChild \in DOMAIN heap :
        \E ulIndex \in 0 .. Node_getNumChildren(heap, oNParent) :
            /\ ~Node_isFile(heap, oNParent)
            /\ Node_getNumChildren(heap, oNParent) < MaxLinks
            /\ heap' = Node_addChild(heap, oNParent, oNChild, ulIndex)
            /\ UNCHANGED <<bIsInitialized, oNRoot, ulCount, oom, inserted, removed>>

StructNext == Build_node \/ Link_child

StructSpec == StructInit /\ [][StructNext]_vars

\* The nodes reachable from the nodes in S through child links.
RECURSIVE Closure(_, _)
Closure(h, S) ==
    LET T == S \cup UNION {{h[n].oDChildren[k] : k \in 1 .. Len(h[n].oDChildren)} :
                               n \in S}
    IN IF T = S THEN S ELSE Closure(h, T)

\* Some node is reachable from the root a second time: the root is a child of
\* a node reachable from it, or another node is a child entry twice.
Revisited ==
    /\ oNRoot # NULL
    /\ LET S == Closure(heap, {oNRoot})
           entries(n) == {pk \in S \X (1 .. MaxLinks) :
                             /\ pk[2] <= Len(heap[pk[1]].oDChildren)
                             /\ heap[pk[1]].oDChildren[pk[2]] = n}
       IN \E n \in S : Cardinality(entries(n)) > (IF n = oNRoot THEN 0 ELSE 1)

\* The counts a caller may pass with the structure.
CountBound == 2 * MaxNodes + 1

\* C26: CheckerFT_isValid returns on every structure, and it returns FALSE
\* when some node is reachable a second time through child links (a cycle or
\* a shared child), whatever the count it is given.
C26_CheckerEndsOnRevisitedNodes ==
    \A c \in 0 .. CountBound :
        LET outcome == CheckerFT_isValid_outcome([FT EXCEPT !.ulCount = c]) IN
        /\ outcome # "no return"
        /\ Revisited => outcome = "FALSE"

\* C27: CheckerFT_Node_isValid returns FALSE for every node that has a parent
\* whose path is not the node's path without its last component, also when
\* the parent is as deep as the node and differs from it in the last
\* component only.
C27_WrongParentPathIsInvalid ==
    \A n \in DOMAIN heap :
        LET oNParent == Node_getParent(heap, n)
            oPNPath == Node_getPath(heap, n)
        IN
        (/\ oNParent # NULL
         /\ Node_getPath(heap, oNParent) # Path_prefix(oPNPath, Path_getDepth(oPNPath) - 1))
        => ~CheckerFT_Node_isValid(heap, n)

\* The pathnames of the proper non-empty prefixes of the path of pcPath.
ProperPrefixes(pcPath) ==
    {Path_getPathname(Path_prefix(PathOf(pcPath), d)) :
        d \in 1 .. Path_getDepth(PathOf(pcPath)) - 1}

\* C28: after a successful FT_insertDir(p), FT_containsDir(p) is TRUE,
\* FT_containsFile(p) is FALSE and FT_containsDir(q) is TRUE for every proper
\* non-empty prefix q of p, whether or not the tree had a root before.
C28_InsertedDirIsContained ==
    [][\A pcPath \in GoodStrings :
          Did_insertDir(pcPath) =>
              /\ FT_containsDir(FT', pcPath, NoFail).bResult
              /\ ~FT_containsFile(FT', pcPath, NoFail).bResult
              /\ \A q \in ProperPrefixes(pcPath) :
                    FT_containsDir(FT', q, NoFail).bResult]_vars

\* The prefixes of the path of pcPath, the path itself included, that no node
\* of the tree has.
AbsentPrefixes(pcPath) ==
    {d \in 1 .. Path_getDepth(PathOf(pcPath)) : ~HasNode(Path_prefix(PathOf(pcPath), d))}

\* C29: a successful FT_insertFile(p, contents, length) leaves a state in
\* which FT_containsFile(p) is TRUE, FT_containsDir(p) is FALSE and
\* FT_containsDir(q) is TRUE for every proper non-empty prefix q of p, and in
\* which the count (a size_t) is the count before plus the number of prefixes
\* of p, p included, that were absent before.
C29_InsertedFileIsContainedAndCounted ==
    \A pcPath \in GoodStrings, in \in AllFileInputs :
        LET r == FT_insertFile(FT, pcPath, in[1], in[2], NoFail) IN
        r.iStatus = "SUCCESS" =>
            /\ FT_containsFile(r.ft, pcPath, NoFail).bResult
            /\ ~FT_containsDir(r.ft, pcPath, NoFail).bResult
            /\ \A q \in ProperPrefixes(pcPath) :
                  FT_containsDir(r.ft, q, NoFail).bResult
            /\ r.ft.ulCount = (ulCount + Cardinality(AbsentPrefixes(pcPath))) % SizeMod

\* FT_insertFile has created a File of depth 3 together with its parent: the
\* tree contains both and counts 3 nodes.
C29_FileWithNewParent ==
    /\ ulCount = 3
    /\ ~removed
    /\ \E pcPath \in GoodStrings :
          /\ Path_getDepth(PathOf(pcPath)) = 3
          /\ [oPPath |-> PathOf(pcPath), bIsFile |-> TRUE] \in inserted
          /\ FT_containsFile(FT, pcPath, NoFail).bResult
          /\ \A q \in ProperPrefixes(pcPath) : FT_containsDir(FT, q, NoFail).bResult
          /\ Cardinality(inserted) = 3

\* The depth of the longest prefix of oPPath that is the path of a node of the
\* tree (0 when there is none).
LongestPresent(oPPath) ==
    LET present == {d \in 1 .. Path_getDepth(oPPath) : HasNode(Path_prefix(oPPath, d))}
    IN IF present = {} THEN 0
       ELSE CHOOSE d \in present : \A e \in present : e <= d

Dirs == DOMAIN heap \ Files

Entry(d, k) == heap[d].oDChildren[k]

EntryPairs(d) ==
    {ij \in (1 .. MaxLinks) \X (1 .. MaxLinks) :
        ij[1] < ij[2] /\ ij[2] <= Len(heap[d].oDChildren)}

\* The children of d hold a File before a Directory.
FileBeforeDirectory(d) ==
    \E ij \in EntryPairs(d) :
        Node_isFile(heap, Entry(d, ij[1])) /\ ~Node_isFile(heap, Entry(d, ij[2]))

\* The children of d hold two entries with the same pathname.
SamePathnameTwice(d) ==
    \E ij \in EntryPairs(d) :
        Path_comparePath(Node_getPath(heap, Entry(d, ij[1])),
                         Node_getPath(heap, Entry(d, ij[2]))) = 0

\* Two neighbours among the children of d, of the same kind when bSameKind,
\* have pathnames that are not strictly increasing.
NeighboursNotIncreasing(d, bSameKind) ==
    \E k \in 1 .. Len(heap[d].oDChildren) - 1 :
        /\ bSameKind => Node_isFile(heap, Entry(d, k)) = Node_isFile(heap, Entry(d, k + 1))
        /\ Path_comparePath(Node_getPath(heap, Entry(d, k)),
                            Node_getPath(heap, Entry(d, k + 1))) >= 0

CheckerInputs ==
    {FTState(b, r, c, heap) : b \in BOOLEAN, r \in DOMAIN heap \cup {NULL},
                              c \in 0 .. CountBound}

\* The cases of C32 in which FALSE is to be returned.
ToBeRejected(ft) ==
    \/ ~ft.bIsInitialized /\ (ft.oNRoot # NULL \/ ft.ulCount # 0)
    \/ ft.oNRoot = NULL /\ ft.ulCount # 0
    \/ /\ ft.oNRoot # NULL
       /\ \/ Node_getParent(ft.heap, ft.oNRoot) # NULL
          \/ Node_isFile(ft.heap, ft.oNRoot)
          \/ ft.ulCount # Cardinality(Closure(ft.heap, {ft.oNRoot}))

\* C32: CheckerFT_isValid returns FALSE when the FT is not initialized and the
\* root is not NULL or the count is not 0, when the root is NULL and the count
\* is not 0, when the root has a parent or is a File, and when the count
\* differs from the number of nodes reachable from the root; it returns TRUE
\* for a NULL root with count 0, initialized or not.
C32_CheckerRejectsBadTopLevel ==
    \A ft \in CheckerInputs :
        LET outcome == CheckerFT_isValid_outcome(ft) IN
        /\ ToBeRejected(ft) => outcome = "FALSE"
        /\ (ft.oNRoot = NULL /\ ft.ulCount = 0) => outcome = "TRUE"

NoneIffEmpty(h, f) == (h[f].pvContents = <<>>) <=> (h[f].ulLength = 0)

\* C34: for every File in every reachable state the contents buffer is NULL
\* exactly if the stored length is 0, as Node_new leaves it for every
\* contents pointer and length, and it is so again after every
\* Node_replaceFileContents call on the File.
C34_NoContentsIffLengthZero ==
    \A f \in Files :
        /\ NoneIffEmpty(heap, f)
        /\ \A in \in ReplaceInputs, fail \in ReplaceFails :
              NoneIffEmpty(Node_replaceFileContents(heap, f, in[1], in[2], fail).heap, f)

====
